---- MODULE Spec2Model ----
(***************************************************************************)
(* Model of xenonpy/utils/useful_cls.py: the named-stopwatch registry      *)
(* Timer (with its inner slot class _Timer) and the metaclass              *)
(* TimedMetaClass that injects a Timer into instances and wraps methods.   *)
(***************************************************************************)
EXTENDS Integers, Sequences, FiniteSets, TLC

\* ------------------------------------------------------------------ bounds
\* largest reading of the injected (fake) clock
MaxClock == 2
\* largest reading of time.perf_counter()
MaxPerf == 2
\* most completed durations one slot accumulates
MaxTimes == 2
\* with two instances: durations per slot
PairTimes == 1

\* slot names used by callers of a stand-alone Timer
Names == {"main", "a"}
\* slot names a managed-usage block body works on
BodyNames == Names \ {"main"}

VARIABLES
    fake,     \* the injected clock function's current reading
    perf,     \* time.perf_counter()'s current reading
    tm,       \* a stand-alone Timer constructed with the injected clock
    gstart,   \* per name: the clock reading of the open start of a pair, or None
    gsum,     \* per name: sum over closed pairs of (reading at stop - reading at start)
    ctx,      \* the managed-usage block (with tm: ...) in progress, if any
    last,     \* the operation performed by the latest step and what it raised
    got,      \* what the latest read (elapsed, report) returned to its caller
    classes,  \* the types TimedMetaClass.__new__ has produced so far
    objs,     \* the instances: class, _timer attribute, construction status
    heap,     \* the Timer objects made by injected_init, in order of creation
    stack,    \* the call stack of the single thread of control
    ret,      \* the outcome travelling from a finished frame to its caller
    call      \* the top-level call in progress or just finished

tvars == <<fake, tm, gstart, gsum, ctx, last, got>>
ivars == <<classes, objs, heap, stack, ret, call>>
vars == <<fake, perf, tm, gstart, gsum, ctx, last, got, classes, objs, heap, stack, ret, call>>

\* ------------------------------------------------------------ Timer._Timer
\* Python's None for _Timer.start; a recorded reading v is <<v>>
None == <<>>

RECURSIVE Sum(_)
\* builtin sum() over a list
Sum(s) == IF s = <<>> THEN 0 ELSE Head(s) + Sum(Tail(s))

\* _Timer.__init__
NewSlot(k) == [name |-> k, start |-> None, times |-> <<>>]

\* truth value of `self.start` in `... if self.start else 0.0`
Truthy(start) == start # None /\ start[1] # 0

\* _Timer.elapsed; pc is the reading time.perf_counter() returns
SlotElapsed(slot, pc) ==
    Sum(slot.times) + (IF Truthy(slot.start) THEN pc - slot.start[1] ELSE 0)

\* ------------------------------------------------------------------ Timer
\* `k in self._timers`
Has(timers, k) == \E i \in 1..Len(timers) : timers[i].name = k

\* defaultdict.__getitem__: a missing key is inserted (at the end) first
Lookup(timers, k) == IF Has(timers, k) THEN timers ELSE Append(timers, NewSlot(k))

Index(timers, k) == CHOOSE i \in 1..Len(timers) : timers[i].name = k

\* the slot stored under k (k present)
Slot(timers, k) == timers[Index(timers, k)]

\* Timer.__init__
TimerInit(func) == [func |-> func, timers |-> <<>>]

\* self._func()
ClockRead(func) == IF func = "perf" THEN perf ELSE fake

\* faulty variant of Timer.start: tests the truth value of start, not `is not None`
TimerStartBadGuard(t, k, now) ==
    LET ts == Lookup(t.timers, k)
        i == Index(ts, k)
    IN  IF Truthy(ts[i].start)
        THEN [timer |-> [t EXCEPT !.timers = ts], exc |-> "AlreadyStarted"]
        ELSE [timer |-> [t EXCEPT !.timers = [ts EXCEPT ![i].start = <<now>>]],
              exc |-> "none"]

\* Timer.start, with `now` the reading self._func() would return
TimerStart(t, k, now) ==
    LET ts == Lookup(t.timers, k)
        i == Index(ts, k)
    IN  IF ts[i].start # None
        THEN [timer |-> [t EXCEPT !.timers = ts], exc |-> "AlreadyStarted"]
        ELSE [timer |-> [t EXCEPT !.timers = [ts EXCEPT ![i].start = <<now>>]],
              exc |-> "none"]

\* faulty variant of Timer.stop: appends the reading, not the difference
TimerStopAppendsReading(t, k, now) ==
    LET ts == Lookup(t.timers, k)
        i == Index(ts, k)
    IN  IF ts[i].start = None
        THEN [timer |-> [t EXCEPT !.timers = ts], exc |-> "NotStarted"]
        ELSE [timer |-> [t EXCEPT !.timers =
                  [ts EXCEPT ![i].times = Append(@, now), ![i].start = None]],
              exc |-> "none"]

\* faulty variant of Timer.stop: no check that the slot was started
TimerStopNoCheck(t, k, now) ==
    LET ts == Lookup(t.timers, k)
        i == Index(ts, k)
        s == IF ts[i].start = None THEN now ELSE ts[i].start[1]
    IN  [timer |-> [t EXCEPT !.timers =
             [ts EXCEPT ![i].times = Append(@, now - s), ![i].start = None]],
         exc |-> "none"]

\* Timer.stop, with `now` the reading self._func() would return
TimerStop(t, k, now) ==
    LET ts == Lookup(t.timers, k)
        i == Index(ts, k)
    IN  IF ts[i].start = None
        THEN [timer |-> [t EXCEPT !.timers = ts], exc |-> "NotStarted"]
        ELSE [timer |-> [t EXCEPT !.timers =
                  [ts EXCEPT ![i].times = Append(@, now - ts[i].start[1]),
                             ![i].start = None]],
              exc |-> "none"]

\* the slot under k is Running / the number of its completed durations
Running(timers, k) == Has(timers, k) /\ Slot(timers, k).start # None
NTimes(timers, k) == IF Has(timers, k) THEN Len(Slot(timers, k).times) ELSE 0

\* Timer.elapsed (property): the slot "main" alone when there is one, else
\* the sum over self._timers.values(); pc is the reading of time.perf_counter()
RECURSIVE SumElapsed(_, _)
SumElapsed(timers, pc) ==
    IF timers = <<>> THEN 0
    ELSE SlotElapsed(Head(timers), pc) + SumElapsed(Tail(timers), pc)

\* faulty variant of Timer.elapsed: always the sum over all the slots
TimerElapsedSumsAll(t, pc) == SumElapsed(t.timers, pc)

TimerElapsed(t, pc) ==
    IF Has(t.timers, "main")
    THEN SlotElapsed(Slot(t.timers, "main"), pc)
    ELSE SumElapsed(t.timers, pc)

\* faulty variant of the read of Timer.elapsed: looks "main" up in the
\* defaultdict instead of testing `'main' in self._timers`
ElapsedCallLooksUp(t, pc) ==
    LET ts == Lookup(t.timers, "main")
    IN  [timer |-> [t EXCEPT !.timers = ts], value |-> SlotElapsed(Slot(ts, "main"), pc)]

\* a caller reads t.elapsed: the Timer afterwards and the value returned
ElapsedCall(t, pc) == [timer |-> t, value |-> TimerElapsed(t, pc)]

\* {k: v.elapsed for k, v in self._timers.items()}, in the dict's order
Items(t, pc) ==
    [i \in 1..Len(t.timers) |->
        [name |-> t.timers[i].name, elapsed |-> SlotElapsed(t.timers[i], pc)]]

RECURSIVE InsertAsc(_, _)
\* x put behind every item whose key is not larger (equal keys keep their order)
InsertAsc(s, x) ==
    IF s = <<>> THEN <<x>>
    ELSE IF Head(s).elapsed <= x.elapsed THEN <<Head(s)>> \o InsertAsc(Tail(s), x)
    ELSE <<x>> \o s

RECURSIVE InsertDesc(_, _)
\* x put behind every item whose key is not smaller (equal keys keep their order)
InsertDesc(s, x) ==
    IF s = <<>> THEN <<x>>
    ELSE IF Head(s).elapsed >= x.elapsed THEN <<Head(s)>> \o InsertDesc(Tail(s), x)
    ELSE <<x>> \o s

RECURSIVE SortAscInto(_, _)
SortAscInto(acc, s) ==
    IF s = <<>> THEN acc ELSE SortAscInto(InsertAsc(acc, Head(s)), Tail(s))

RECURSIVE SortDescInto(_, _)
SortDescInto(acc, s) ==
    IF s = <<>> THEN acc ELSE SortDescInto(InsertDesc(acc, Head(s)), Tail(s))

RECURSIVE Reversed(_)
Reversed(s) == IF s = <<>> THEN <<>> ELSE Append(Reversed(Tail(s)), Head(s))

\* sorted(items, key=lambda t: t[1]): stable, ascending
SortedAsc(s) == SortAscInto(<<>>, s)

\* faulty variant of the descending sort: the ascending order turned around
SortedDescByReversal(s) == Reversed(SortedAsc(s))

\* sorted(items, key=lambda t: t[1], reverse=True): stable, descending
SortedDesc(s) == SortDescInto(<<>>, s)

\* Timer.__repr__: the total line and one line per slot (name, elapsed); the
\* timedelta rendering of the numbers is left out
Report(t, pc) ==
    [total |-> TimerElapsed(t, pc), lines |-> SortedDesc(SortedAsc(Items(t, pc)))]

\* nothing read yet
NoOut == [total |-> 0, lines |-> <<>>]

\* --------------------------------------------------------- TimedMetaClass
\* the types defined with the metaclass: A, B(A), C(B); A derives from object
ClassNames == {"A", "B", "C"}
Base(c) == IF c = "C" THEN "B" ELSE IF c = "B" THEN "A" ELSE "object"

\* the instances
ObjIds == {1}
\* two instances, for what one instance's calls do to another
Pair == {1, 2}

\* attribute names a class body may bind
AttrNames == {"__init__", "run", "aux", "_helper", "limit"}
\* name_.startswith("__")
Dunder(n) == n \in {"__init__"}

\* an attribute value of a class body: a function with the statements of its
\* body, or nothing bound under the name
Fn(script) == [kind |-> "function", script |-> script]
Absent == [kind |-> "absent", script |-> <<>>]
\* a value that is no function (limit = 10 in the class body)
Data == [kind |-> "data", script |-> <<>>]

\* bodies of user methods, as statement lists
\*   return          return a value of this function's own
\*   raise           raise a failure of the domain
\*   recurse         if arg > 0: last = self.<op>(arg - 1), else return own value
\*   super           last = super().<op>(arg)   (for __init__: super().__init__())
\*   aux             self.aux(arg)
\*   run             self.run(0)
\*   return_last     return last
\*   store           self.v = v   (first statement of an __init__(self, v))
RetBody == <<"return">>
RaiseBody == <<"raise">>
RecurseBody == <<"recurse", "return_last">>
SuperBody == <<"super", "return_last">>
AuxBody == <<"aux", "return">>
InitPass == <<"return">>
InitSuper == <<"super", "return">>
InitRun == <<"run", "return">>
InitRunSuper == <<"run", "super", "return">>
InitStore == <<"store", "return">>

\* the number of positional parameters a user function declares after self
Params(script) == IF script # <<>> /\ script[1] = "store" THEN 1 ELSE 0

\* the positional arguments of a construction c(...): 0 stands for c(), a
\* value v > 0 for c(v)
InitArgs == {0, 1}

\* Python's binding of the arguments a to a function declaring p parameters
\* after self succeeds
Binds(p, a) == (p = 0) <=> (a = 0)

\* a class body binding __init__, run, aux, _helper and limit to i, r, a, h, d
Body(i, r, a, h, d) ==
    [n \in AttrNames |->
        IF n = "__init__" THEN i ELSE IF n = "run" THEN r ELSE IF n = "aux" THEN a
        ELSE IF n = "_helper" THEN h ELSE d]

\* class bodies with a private function and a data attribute
PrivateBodies(c) ==
    IF c = "A" THEN {Body(Fn(InitPass), Fn(RetBody), Absent, Fn(RetBody), Data)}
    ELSE {}

\* the class bodies handed to the metaclass for each type
ClassBodies(c) ==
    PrivateBodies(c) \cup
    IF c = "A" THEN
        { Body(i, r, a, Absent, Absent) :
            <<i, r, a>> \in { <<Fn(InitPass), Fn(RetBody), Fn(RaiseBody)>>,
                             <<Fn(InitRun), Fn(AuxBody), Fn(RetBody)>>,
                             <<Absent, Fn(RecurseBody), Absent>>,
                             <<Fn(InitPass), Fn(RaiseBody), Absent>>,
                             <<Fn(InitStore), Fn(RetBody), Absent>> } }
    ELSE IF c = "B" THEN
        { Body(i, r, a, Absent, Absent) :
            <<i, r, a>> \in { <<Absent, Absent, Absent>>,
                             <<Fn(InitSuper), Fn(SuperBody), Absent>>,
                             <<Fn(InitRunSuper), Absent, Fn(RetBody)>> } }
    ELSE
        { Body(i, r, a, Absent, Absent) :
            <<i, r, a>> \in { <<Absent, Absent, Absent>>,
                             <<Fn(InitSuper), Absent, Fn(RaiseBody)>> } }

\* arguments of an exposed operation
Args == {0, 1}

NoAttr == [kind |-> "absent", script |-> <<>>, layers |-> 0, owner |-> "object"]
NoClass == [defined |-> FALSE, attrs |-> [n \in AttrNames |-> NoAttr]]
NoObj == [cls |-> "none", built |-> "no", hasTimer |-> FALSE,
          ref |-> 0, nalloc |-> 0, recorded |-> 0, v |-> None]
NoRet == [kind |-> "none", val |-> <<>>]
NoCall == [kind |-> "none", obj |-> 0, op |-> "", arg |-> 0, pre |-> 0,
           starts |-> 0, stops |-> 0]

\* outcomes
Ret(v) == [kind |-> "ret", val |-> v]
Raise(e) == [kind |-> "raise", val |-> <<e>>]

\* ------------------------------------------------------------------- state
NoCtx == [in |-> FALSE, pre |-> 0]

\* what the latest step did: the operation, the slot name, what the caller saw
\* raised; for the exit of a with block also how its body ended and the number
\* of durations "main" had at entry
Did(op, k, exc, body, pre) ==
    [op |-> op, name |-> k, exc |-> exc, body |-> body, pre |-> pre]

Init ==
    /\ fake = 0
    /\ perf = 1
    /\ tm = TimerInit("fake")
    /\ gstart = [k \in Names |-> None]
    /\ gsum = [k \in Names |-> 0]
    /\ ctx = NoCtx
    /\ last = Did("init", "", "none", "none", 0)
    /\ got = NoOut
    /\ classes = [c \in ClassNames |-> NoClass]
    /\ objs = [o \in Pair |-> NoObj]
    /\ heap = <<>>
    /\ stack = <<>>
    /\ ret = NoRet
    /\ call = NoCall

\* the injected clock advances (it is non-decreasing)
TickFake ==
    /\ fake < MaxClock
    /\ fake' = fake + 1
    /\ last' = Did("tick", "", "none", "none", 0)
    /\ got' = NoOut
    /\ UNCHANGED <<perf, tm, gstart, gsum, ctx>>
    /\ UNCHANGED ivars

\* time.perf_counter() advances
TickPerf ==
    /\ perf < MaxPerf
    /\ perf' = perf + 1
    /\ last' = Did("tick", "", "none", "none", 0)
    /\ got' = NoOut
    /\ UNCHANGED <<fake, tm, gstart, gsum, ctx>>
    /\ UNCHANGED ivars

\* the pairing of the calls on name k, kept apart from the Timer's own state
GhostStart(k, now) ==
    gstart' = IF gstart[k] = None THEN [gstart EXCEPT ![k] = <<now>>] ELSE gstart

GhostStop(k, now) ==
    IF gstart[k] # None
    THEN /\ gsum' = [gsum EXCEPT ![k] = @ + now - gstart[k][1]]
         /\ gstart' = [gstart EXCEPT ![k] = None]
    ELSE UNCHANGED <<gsum, gstart>>

\* a caller's tm.start(k); inside a managed-usage block the body leaves "main" alone
Start(k) ==
    /\ ctx.in => k \in BodyNames
    /\ Running(tm.timers, k) \/ NTimes(tm.timers, k) < MaxTimes
    /\ LET now == ClockRead(tm.func)
           r == TimerStart(tm, k, now)
       IN  /\ tm' = r.timer
           /\ last' = Did("start", k, r.exc, "none", 0)
           /\ got' = NoOut
           /\ GhostStart(k, now)
    /\ UNCHANGED <<fake, perf, gsum, ctx>>
    /\ UNCHANGED ivars

\* a caller's tm.stop(k)
Stop(k) ==
    /\ ctx.in => k \in BodyNames
    /\ LET now == ClockRead(tm.func)
           r == TimerStop(tm, k, now)
       IN  /\ tm' = r.timer
           /\ last' = Did("stop", k, r.exc, "none", 0)
           /\ got' = NoOut
           /\ GhostStop(k, now)
    /\ UNCHANGED <<fake, perf, ctx>>
    /\ UNCHANGED ivars

\* Timer.__enter__: self.start(); return self
TimerEnter(t, now) == TimerStart(t, "main", now)

\* faulty variant of Timer.__exit__: suppresses the failure of the block body
TimerExitSwallows(t, now, e) ==
    LET r == TimerStop(t, "main", now)
    IN  [timer |-> r.timer, exc |-> r.exc]

\* Timer.__exit__(*args): self.stop(); the implicit None it returns does not
\* suppress the failure e (or "none") the block body is leaving with
TimerExit(t, now, e) ==
    LET r == TimerStop(t, "main", now)
    IN  [timer |-> r.timer, exc |-> IF r.exc # "none" THEN r.exc ELSE e]

\* how a block body ends: normally, or with a failure of its own
BodyOutcomes == {"none", "BodyError"}

\* `with tm:` is entered; when __enter__ raises, the body and __exit__ never run
Enter ==
    /\ ~ctx.in
    /\ Running(tm.timers, "main") \/ NTimes(tm.timers, "main") < MaxTimes
    /\ LET now == ClockRead(tm.func)
           r == TimerEnter(tm, now)
       IN  /\ tm' = r.timer
           /\ last' = Did("enter", "main", r.exc, "none", 0)
           /\ got' = NoOut
           /\ ctx' = IF r.exc = "none"
                     THEN [in |-> TRUE, pre |-> NTimes(tm.timers, "main")]
                     ELSE ctx
           /\ GhostStart("main", now)
    /\ UNCHANGED <<fake, perf, gsum>>
    /\ UNCHANGED ivars

\* the block is left with body outcome e; last.exc is what the caller of the
\* with statement observes
Exit(e) ==
    /\ ctx.in
    /\ LET now == ClockRead(tm.func)
           r == TimerExit(tm, now, e)
       IN  /\ tm' = r.timer
           /\ last' = Did("exit", "main", r.exc, e, ctx.pre)
           /\ got' = NoOut
           /\ ctx' = NoCtx
           /\ GhostStop("main", now)
    /\ UNCHANGED <<fake, perf>>
    /\ UNCHANGED ivars

\* a caller reads tm.elapsed
ReadElapsed ==
    /\ LET r == ElapsedCall(tm, perf)
       IN  /\ tm' = r.timer
           /\ got' = [total |-> r.value, lines |-> <<>>]
    /\ last' = Did("elapsed", "", "none", "none", 0)
    /\ UNCHANGED <<fake, perf, gstart, gsum, ctx>>
    /\ UNCHANGED ivars

\* a caller reads the elapsed property of the i-th slot object of tm
ReadSlotElapsed(i) ==
    /\ got' = [total |-> SlotElapsed(tm.timers[i], perf), lines |-> <<>>]
    /\ last' = Did("slot_elapsed", tm.timers[i].name, "none", "none", 0)
    /\ UNCHANGED <<fake, perf, tm, gstart, gsum, ctx>>
    /\ UNCHANGED ivars

\* a caller evaluates repr(tm)
ReadReport ==
    /\ got' = Report(tm, perf)
    /\ last' = Did("report", "", "none", "none", 0)
    /\ UNCHANGED <<fake, perf, tm, gstart, gsum, ctx>>
    /\ UNCHANGED ivars

TimerNext ==
    \/ TickFake
    \/ TickPerf
    \/ \E k \in Names : Start(k)
    \/ \E k \in Names : Stop(k)
    \/ Enter
    \/ \E e \in BodyOutcomes : Exit(e)
    \/ ReadElapsed
    \/ \E i \in 1..Len(tm.timers) : ReadSlotElapsed(i)
    \/ ReadReport

\* a stand-alone Timer driven by a deterministic injected clock
SpecTimer == Init /\ [][TimerNext]_vars

\* ------------------------------------------------- TimedMetaClass.__new__
RECURSIVE Resolve(_, _)
\* attribute lookup along the inheritance chain starting at class c
Resolve(c, n) ==
    IF c = "object" THEN [found |-> FALSE, attr |-> NoAttr]
    ELSE IF classes[c].attrs[n].kind # "absent"
         THEN [found |-> TRUE, attr |-> classes[c].attrs[n]]
         ELSE Resolve(Base(c), n)

\* TimedMetaClass._timed(fn): fn_ around fn, one more timing layer; for a
\* value that is no function, the TypeError it raises
Timed(v) ==
    IF v.kind = "function" THEN [v EXCEPT !.layers = @ + 1]
    ELSE [v EXCEPT !.kind = "TypeError"]

\* the loop of __new__ over attrs.items(): which values are replaced
ShouldWrap(n, v) == ~Dunder(n) /\ v.kind = "function"

\* faulty variant of __new__: wraps the operations found on the bases again
MetaNewWrapsInherited(c, body) ==
    [defined |-> TRUE,
     attrs |-> [n \in AttrNames |->
        IF n = "__init__"
        THEN [kind |-> "function", script |-> body[n].script, layers |-> 0, owner |-> c]
        ELSE IF body[n].kind = "absent"
             THEN IF Resolve(Base(c), n).found
                  THEN Timed(Resolve(Base(c), n).attr)
                  ELSE NoAttr
             ELSE LET v == [kind |-> body[n].kind, script |-> body[n].script,
                            layers |-> 0, owner |-> c]
                  IN  IF ShouldWrap(n, v) THEN Timed(v) ELSE v]]

\* the attribute table of the type __new__ returns for class body `body`;
\* attrs['__init__'] is always injected_init: around real_init when the body
\* binds __init__ (script = its statements), alone otherwise (script = <<>>)
MetaNew(c, body) ==
    LET attrs == [n \in AttrNames |->
            IF n = "__init__"
            THEN [kind |-> "function", script |-> body[n].script, layers |-> 0, owner |-> c]
            ELSE IF body[n].kind = "absent"
                 THEN NoAttr
                 ELSE LET v == [kind |-> body[n].kind, script |-> body[n].script,
                                layers |-> 0, owner |-> c]
                      IN  IF ShouldWrap(n, v) THEN Timed(v) ELSE v]
    IN  \* a TypeError out of _timed leaves __new__ before the type exists
        [defined |-> \A n \in AttrNames : attrs[n].kind # "TypeError", attrs |-> attrs]

\* faulty variant of injected_init: real_init runs before the Timer is attached
InitPlanRealFirst(script) ==
    IF script = <<>> THEN <<"setattr">> ELSE <<"real_init", "setattr">>

\* the statements of injected_init
InitPlan(script) ==
    IF script = <<>> THEN <<"setattr">> ELSE <<"setattr", "real_init">>

\* fn_: self._timer.start(fn.__name__)
TimedEnter(t, n, now) == TimerStart(t, n, now)

\* faulty variant of fn_: stop only after a normal return (no finally)
TimedExitNoFinally(t, n, now, rt) ==
    IF rt.kind = "raise"
    THEN [timer |-> t, out |-> rt, stopped |-> FALSE, called |-> FALSE]
    ELSE LET r == TimerStop(t, n, now)
         IN  [timer |-> r.timer,
              out |-> IF r.exc # "none" THEN Raise(r.exc) ELSE rt,
              stopped |-> r.exc = "none", called |-> TRUE]

\* faulty variant of fn_: the failure of fn is swallowed
TimedExitSwallows(t, n, now, rt) ==
    LET r == TimerStop(t, n, now)
    IN  [timer |-> r.timer,
         out |-> IF r.exc # "none" THEN Raise(r.exc)
                 ELSE IF rt.kind = "raise" THEN Ret(<<>>) ELSE rt,
         stopped |-> r.exc = "none", called |-> TRUE]

\* fn_: the finally clause self._timer.stop(fn.__name__), then `return rt` or
\* the re-raise of what fn raised (rt is fn's outcome)
TimedExit(t, n, now, rt) ==
    LET r == TimerStop(t, n, now)
    IN  [timer |-> r.timer,
         out |-> IF r.exc # "none" THEN Raise(r.exc) ELSE rt,
         stopped |-> r.exc = "none", called |-> TRUE]

\* faulty variant of the Timer() of injected_init: one Timer object, made
\* once, handed to every instance
NewTimerShared(h) ==
    IF h = <<>> THEN [heap |-> <<TimerInit("perf")>>, ref |-> 1]
    ELSE [heap |-> h, ref |-> 1]

\* Timer() in injected_init: a new Timer object; ref is the reference the
\* instance keeps in self._timer
NewTimer(h) == [heap |-> Append(h, TimerInit("perf")), ref |-> Len(h) + 1]

\* the Timer object self._timer of instance o refers to, for heap h and
\* instances os (an empty Timer when o has no _timer attribute)
TimerIn(h, os, o) == IF os[o].ref = 0 THEN TimerInit("perf") ELSE h[os[o].ref]
TimerObj(o) == TimerIn(heap, objs, o)

\* ------------------------------------------------------------ call stack
Top == stack[Len(stack)]
Pop == SubSeq(stack, 1, Len(stack) - 1)
\* the stack with its top frame replaced by f and g pushed on it
Calling(f, g) == Append(Append(Pop, f), g)

\* kinds of frame: "init" runs injected_init, "wrap" runs fn_, "body" runs the
\* statements of a user function
Frame(kind, o, owner, n, script, arg, layers) ==
    [kind |-> kind, self |-> o, owner |-> owner, op |-> n, script |-> script,
     arg |-> arg, pc |-> 1, layers |-> layers, pre |-> 0]

\* the frame that runs attribute value a bound under name n, called on o
Invoke(o, a, n, arg) ==
    IF n = "__init__" THEN Frame("init", o, a.owner, n, a.script, arg, 0)
    ELSE IF a.layers > 0 THEN Frame("wrap", o, a.owner, n, a.script, arg, a.layers)
    ELSE Frame("body", o, a.owner, n, a.script, arg, 0)

\* the value a user function returns on its own account
OwnValue(owner, n, arg) == IF n = "__init__" THEN <<>> ELSE <<owner, n, arg>>

\* start/stop calls made on the slot of the top-level call's own operation
Counted(f) == call.kind = "call" /\ f.self = call.obj /\ f.op = call.op

\* a type is defined: TimedMetaClass.__new__ runs on its class body
NewClass(c, body) ==
    /\ stack = <<>>
    /\ ~classes[c].defined
    /\ IF Base(c) = "object" THEN TRUE ELSE classes[Base(c)].defined
    /\ classes' = IF MetaNew(c, body).defined
                  THEN [classes EXCEPT ![c] = MetaNew(c, body)]
                  ELSE classes
    /\ UNCHANGED <<perf, objs, heap, stack, ret, call>>
    /\ UNCHANGED tvars

\* a caller evaluates c(): type.__call__ makes the instance and runs c.__init__
Construct(o, c, a) ==
    /\ stack = <<>>
    /\ objs[o].cls = "none"
    /\ classes[c].defined
    /\ objs' = [objs EXCEPT ![o].cls = c, ![o].built = "constructing"]
    /\ stack' = <<Invoke(o, Resolve(c, "__init__").attr, "__init__", a)>>
    /\ ret' = NoRet
    /\ call' = [NoCall EXCEPT !.kind = "new", !.obj = o, !.op = "__init__", !.arg = a]
    /\ UNCHANGED <<perf, classes, heap>>
    /\ UNCHANGED tvars

\* a caller evaluates o.n(arg) on a constructed instance
CallOp(o, n, arg) ==
    /\ stack = <<>>
    /\ objs[o].built = "yes"
    /\ Resolve(objs[o].cls, n).found
    /\ Resolve(objs[o].cls, n).attr.kind = "function"
    /\ \A m \in AttrNames : NTimes(TimerObj(o).timers, m) < MaxTimes
    /\ stack' = <<Invoke(o, Resolve(objs[o].cls, n).attr, n, arg)>>
    /\ ret' = NoRet
    /\ call' = [kind |-> "call", obj |-> o, op |-> n, arg |-> arg,
                pre |-> NTimes(TimerObj(o).timers, n), starts |-> 0, stops |-> 0]
    /\ UNCHANGED <<perf, classes, objs, heap>>
    /\ UNCHANGED tvars

\* injected_init: one statement of it, or its return
InitStep ==
    /\ stack # <<>>
    /\ Top.kind = "init"
    /\ LET f == Top
           o == f.self
           plan == InitPlan(f.script)
           leaving == ret.kind = "raise" \/ f.pc > Len(plan)
           out == IF ret.kind = "raise" THEN ret ELSE Ret(<<>>)
       IN  IF leaving
           THEN /\ stack' = Pop
                /\ ret' = out
                /\ objs' = IF Len(stack) = 1
                           THEN [objs EXCEPT ![o].built =
                                    IF out.kind = "raise" THEN "failed" ELSE "yes"]
                           ELSE objs
                /\ heap' = heap
           ELSE IF f.pc = 1 /\ f.script = <<>> /\ f.arg # 0
           THEN \* def injected_init(self) takes no further argument
                /\ stack' = Pop
                /\ ret' = Raise("TypeError")
                /\ objs' = IF Len(stack) = 1
                           THEN [objs EXCEPT ![o].built = "failed"]
                           ELSE objs
                /\ heap' = heap
           ELSE IF plan[f.pc] = "setattr"
           THEN \* setattr(self, '_timer', Timer())
                /\ objs' = [objs EXCEPT ![o].hasTimer = TRUE,
                                        ![o].ref = NewTimer(heap).ref,
                                        ![o].nalloc = @ + 1]
                /\ heap' = NewTimer(heap).heap
                /\ stack' = Append(Pop, [f EXCEPT !.pc = @ + 1])
                /\ ret' = NoRet
           ELSE IF ~Binds(Params(f.script), f.arg)
           THEN \* real_init(self, *args, **kwargs) with arguments it does not take
                /\ stack' = Append(Pop, [f EXCEPT !.pc = @ + 1])
                /\ ret' = Raise("TypeError")
                /\ UNCHANGED <<objs, heap>>
           ELSE \* real_init(self, *args, **kwargs)
                /\ stack' = Calling([f EXCEPT !.pc = @ + 1],
                                    Frame("body", o, f.owner, "__init__", f.script, f.arg, 0))
                /\ ret' = NoRet
                /\ UNCHANGED <<objs, heap>>
    /\ UNCHANGED <<perf, classes, call>>
    /\ UNCHANGED tvars

\* fn_ up to the call of fn: self._timer.start(fn.__name__); rt = fn(self, ...)
WrapEnter ==
    /\ stack # <<>>
    /\ Top.kind = "wrap"
    /\ Top.pc = 1
    /\ LET f == Top
           o == f.self
           r == TimedEnter(TimerObj(o), f.op, perf)
           inner == IF f.layers > 1
                    THEN Frame("wrap", o, f.owner, f.op, f.script, f.arg, f.layers - 1)
                    ELSE Frame("body", o, f.owner, f.op, f.script, f.arg, 0)
       IN  IF ~objs[o].hasTimer
           THEN /\ stack' = Pop
                /\ ret' = Raise("AttributeError")
                /\ UNCHANGED <<heap, call>>
           ELSE /\ heap' = [heap EXCEPT ![objs[o].ref] = r.timer]
                /\ call' = IF Counted(f) THEN [call EXCEPT !.starts = @ + 1] ELSE call
                /\ IF r.exc # "none"
                   THEN /\ stack' = Pop
                        /\ ret' = Raise(r.exc)
                   ELSE /\ stack' = Calling([f EXCEPT !.pc = 2,
                                               !.pre = NTimes(TimerObj(o).timers, f.op)],
                                            inner)
                        /\ ret' = NoRet
    /\ UNCHANGED <<perf, classes, objs>>
    /\ UNCHANGED tvars

\* fn_ after fn came back: finally self._timer.stop(fn.__name__); return rt
WrapExit ==
    /\ stack # <<>>
    /\ Top.kind = "wrap"
    /\ Top.pc = 2
    /\ ret.kind # "none"
    /\ LET f == Top
           o == f.self
           r == TimedExit(TimerObj(o), f.op, perf, ret)
       IN  IF ~objs[o].hasTimer
           THEN /\ ret' = Raise("AttributeError")
                /\ UNCHANGED <<objs, heap, call>>
           ELSE /\ heap' = [heap EXCEPT ![objs[o].ref] = r.timer]
                /\ objs' = [objs EXCEPT ![o].recorded = IF r.stopped THEN @ + 1 ELSE @]
                /\ call' = IF Counted(f) /\ r.called
                           THEN [call EXCEPT !.stops = @ + 1] ELSE call
                /\ ret' = r.out
    /\ stack' = Pop
    /\ UNCHANGED <<perf, classes>>
    /\ UNCHANGED tvars

\* one statement of a user function (a method body, or a real_init)
BodyStep ==
    /\ stack # <<>>
    /\ Top.kind = "body"
    /\ LET f == Top
           o == f.self
           st == f.script[f.pc]
           next == [f EXCEPT !.pc = @ + 1]
           target == IF st = "super" THEN Resolve(Base(f.owner), f.op)
                     ELSE IF st = "recurse" THEN Resolve(objs[o].cls, f.op)
                     ELSE Resolve(objs[o].cls, st)
           name == IF st \in {"super", "recurse"} THEN f.op ELSE st
           arg == IF st = "recurse" THEN f.arg - 1 ELSE IF st = "run" THEN 0 ELSE f.arg
       IN  IF ret.kind = "raise"
           THEN \* the call just made raised: the failure leaves this function too
                /\ stack' = Pop
                /\ ret' = ret
           ELSE IF st = "return" \/ (st = "recurse" /\ f.arg = 0)
           THEN /\ stack' = Pop
                /\ ret' = Ret(OwnValue(f.owner, f.op, f.arg))
           ELSE IF st = "raise"
           THEN /\ stack' = Pop
                /\ ret' = Raise("DomainError")
           ELSE IF st = "return_last"
           THEN /\ stack' = Pop
                /\ ret' = ret
           ELSE IF st = "store"
           THEN /\ stack' = Append(Pop, next)
                /\ ret' = NoRet
           ELSE IF target.found
           THEN /\ stack' = Calling(next, Invoke(o, target.attr, name, arg))
                /\ ret' = NoRet
           ELSE IF st = "super" /\ f.op = "__init__"
           THEN \* object.__init__(self)
                /\ stack' = Append(Pop, next)
                /\ ret' = NoRet
           ELSE /\ stack' = Pop
                /\ ret' = Raise("AttributeError")
    /\ objs' = IF ret.kind # "raise" /\ Top.script[Top.pc] = "store"
               THEN [objs EXCEPT ![Top.self].v = <<Top.arg>>]
               ELSE objs
    /\ UNCHANGED <<perf, classes, heap, call>>
    /\ UNCHANGED tvars

InstNext ==
    \/ TickPerf
    \/ \E c \in ClassNames : \E body \in ClassBodies(c) : NewClass(c, body)
    \/ \E o \in ObjIds : \E c \in ClassNames : \E a \in InitArgs : Construct(o, c, a)
    \/ \E o \in ObjIds : \E n \in AttrNames \ {"__init__"} : \E arg \in Args : CallOp(o, n, arg)
    \/ InitStep
    \/ WrapEnter
    \/ WrapExit
    \/ BodyStep

\* types defined with TimedMetaClass, their instances and the calls on them
SpecInst == Init /\ [][InstNext]_vars

\* a caller evaluates o.timer.start(k): the property `timer` gives self._timer
ObjStart(o, k) ==
    /\ stack = <<>>
    /\ objs[o].built = "yes"
    /\ LET r == TimerStart(TimerObj(o), k, perf)
       IN  /\ heap' = [heap EXCEPT ![objs[o].ref] = r.timer]
           /\ ret' = IF r.exc = "none" THEN Ret(<<>>) ELSE Raise(r.exc)
    /\ call' = [NoCall EXCEPT !.kind = "start", !.obj = o, !.op = k]
    /\ UNCHANGED <<perf, classes, objs, stack>>
    /\ UNCHANGED tvars

\* a caller evaluates o.timer.stop(k)
ObjStop(o, k) ==
    /\ stack = <<>>
    /\ objs[o].built = "yes"
    /\ NTimes(TimerObj(o).timers, k) < MaxTimes
    /\ LET r == TimerStop(TimerObj(o), k, perf)
       IN  /\ heap' = [heap EXCEPT ![objs[o].ref] = r.timer]
           /\ ret' = IF r.exc = "none" THEN Ret(<<>>) ELSE Raise(r.exc)
    /\ call' = [NoCall EXCEPT !.kind = "stop", !.obj = o, !.op = k]
    /\ UNCHANGED <<perf, classes, objs, stack>>
    /\ UNCHANGED tvars

\* the types and the operation used with two instances
PairClasses == {"A"}
PairOps == {"run"}

PairNext ==
    \/ TickPerf
    \/ \E c \in PairClasses : \E body \in ClassBodies(c) : NewClass(c, body)
    \/ \E o \in Pair : \E c \in PairClasses : Construct(o, c, 0)
    \/ \E o \in Pair : \E n \in PairOps : \E arg \in Args :
          /\ \A m \in AttrNames : NTimes(TimerObj(o).timers, m) < PairTimes
          /\ CallOp(o, n, arg)
    \/ \E o \in Pair : \E k \in PairOps : ObjStart(o, k)
    \/ \E o \in Pair : \E k \in PairOps :
          /\ NTimes(TimerObj(o).timers, k) < PairTimes
          /\ ObjStop(o, k)
    \/ InitStep
    \/ WrapEnter
    \/ WrapExit
    \/ BodyStep

\* two instances of instrumented types, used in turn
SpecPair == Init /\ [][PairNext]_vars

\* ------------------------------------------- the uninstrumented operation
RECURSIVE OrigExec(_, _, _, _, _, _, _)
\* what the statements of a user function, from statement pc on, come to for an
\* instance of class c when no method is wrapped (fn itself, not fn_)
OrigExec(c, owner, n, arg, script, pc, lastv) ==
    LET st == script[pc]
        target == IF st = "super" THEN Resolve(Base(owner), n)
                  ELSE IF st = "recurse" THEN Resolve(c, n)
                  ELSE Resolve(c, st)
        name == IF st \in {"super", "recurse"} THEN n ELSE st
        a == IF st = "recurse" THEN arg - 1 ELSE IF st = "run" THEN 0 ELSE arg
        r == OrigExec(c, target.attr.owner, name, a, target.attr.script, 1, NoRet)
    IN  IF st = "return" \/ (st = "recurse" /\ arg = 0) THEN Ret(OwnValue(owner, n, arg))
        ELSE IF st = "raise" THEN Raise("DomainError")
        ELSE IF st = "return_last" THEN lastv
        ELSE IF ~target.found THEN Raise("AttributeError")
        ELSE IF r.kind = "raise" THEN r
        ELSE OrigExec(c, owner, n, arg, script, pc + 1, r)

\* the outcome of o.n(arg) for an instance of class c of the uninstrumented type
OrigCall(c, n, arg) ==
    LET a == Resolve(c, n).attr
    IN  OrigExec(c, a.owner, n, arg, a.script, 1, NoRet)

RECURSIVE OrigInit(_, _, _, _)
RECURSIVE OrigInitExec(_, _, _, _, _, _)
\* what the __init__ found from class c upwards does to an instance of class
\* cls holding v, called with arguments a, when no metaclass is involved:
\* whether it raises, and the v the instance holds afterwards
OrigInit(cls, c, a, v) ==
    IF c = "object"
    THEN [exc |-> IF a # 0 THEN "TypeError" ELSE "none", v |-> v]
    ELSE LET script == classes[c].attrs["__init__"].script
         IN  IF script = <<>> THEN OrigInit(cls, Base(c), a, v)
             ELSE IF ~Binds(Params(script), a) THEN [exc |-> "TypeError", v |-> v]
             ELSE OrigInitExec(cls, c, script, 1, a, v)

OrigInitExec(cls, c, script, pc, a, v) ==
    LET st == script[pc]
        up == OrigInit(cls, Base(c), a, v)
        r == OrigCall(cls, "run", 0)
    IN  IF st = "return" THEN [exc |-> "none", v |-> v]
        ELSE IF st = "store" THEN OrigInitExec(cls, c, script, pc + 1, a, <<a>>)
        ELSE IF st = "super"
        THEN IF up.exc # "none" THEN up
             ELSE OrigInitExec(cls, c, script, pc + 1, a, up.v)
        ELSE IF ~Resolve(cls, "run").found THEN [exc |-> "AttributeError", v |-> v]
        ELSE IF r.kind = "raise" THEN [exc |-> r.val[1], v |-> v]
        ELSE OrigInitExec(cls, c, script, pc + 1, a, v)

\* the outcome of cls(a) for the uninstrumented type
OrigNew(cls, a) == OrigInit(cls, cls, a, None)

\* ------------------------------------------------------------------ properties
\* the elapsed value read from the slot under k (the lookup creates it)
ElapsedOf(timers, k) == SlotElapsed(Slot(Lookup(timers, k), k), perf)

\* C1: once the calls on a name are paired up (the slot is Idle), the slot's
\* elapsed value is exactly the sum over the pairs of (reading at stop -
\* reading at start), whatever was done to other names in between.
PairedElapsedIsSum ==
    \A k \in Names : gstart[k] = None => ElapsedOf(tm.timers, k) = gsum[k]

\* two pairs on "a" summing to 2, with "main" started in between and still open
PairedElapsedWitness ==
    /\ gstart["a"] = None
    /\ NTimes(tm.timers, "a") = 2
    /\ gsum["a"] = 2
    /\ Running(tm.timers, "main")
    /\ tm.timers[1].name = "a"

\* C4: start(name) on a Running slot raises AlreadyStarted and changes nothing
\* (the slot keeps its start reading and its durations), also for a reading of 0.
StartWhileRunningFails ==
    [][\A k \in Names :
         (last'.op = "start" /\ last'.name = k /\ Running(tm.timers, k))
            => (last'.exc = "AlreadyStarted" /\ tm' = tm)]_vars

\* a second start on a slot whose first start read the clock at 0
StartWhileRunningWitness ==
    /\ last.op = "start"
    /\ last.exc = "AlreadyStarted"
    /\ Slot(tm.timers, last.name).start = <<0>>
    /\ NTimes(tm.timers, last.name) = 0

\* C5: stop(name) on a slot that is not Running (Idle after a pair, or never
\* started) raises NotStarted and appends no duration to any slot.
StopWhileIdleFails ==
    [][\A k \in Names :
         (last'.op = "stop" /\ last'.name = k /\ ~Running(tm.timers, k))
            => /\ last'.exc = "NotStarted"
               /\ \A j \in Names :
                    /\ NTimes(tm'.timers, j) = NTimes(tm.timers, j)
                    /\ Has(tm.timers, j) => Slot(tm'.timers, j) = Slot(tm.timers, j)]_vars

\* a failed stop("main") on a Timer where "main" was never started and "a" has
\* one completed pair
StopWhileIdleWitness ==
    /\ last.op = "stop"
    /\ last.name = "main"
    /\ last.exc = "NotStarted"
    /\ NTimes(tm.timers, "main") = 0
    /\ ~Running(tm.timers, "main")
    /\ NTimes(tm.timers, "a") = 1

\* a failed stop("a") right after a completed pair on "a"
StopAfterPairWitness ==
    /\ last.op = "stop"
    /\ last.name = "a"
    /\ last.exc = "NotStarted"
    /\ NTimes(tm.timers, "a") = 1

\* C6: while a slot is Running its elapsed value is the sum of its completed
\* durations plus (now - runningSince), both readings of the Timer's own clock,
\* for every reading recorded by start, 0 included.
RunningElapsedUsesTimerClock ==
    \A i \in 1..Len(tm.timers) :
        tm.timers[i].start # None =>
            SlotElapsed(tm.timers[i], perf) =
                Sum(tm.timers[i].times) + (ClockRead(tm.func) - tm.timers[i].start[1])

\* C7: a managed-usage block that was entered is left through stop("main"):
\* afterwards "main" is Idle with exactly one more duration than at entry, and
\* the caller observes the body's own outcome (its failure, if it raised one).
BlockAlwaysStopsMain ==
    last.op = "exit" =>
        /\ ~Running(tm.timers, "main")
        /\ NTimes(tm.timers, "main") = last.pre + 1
        /\ last.exc = last.body

\* a block left by a failure of its body, entered with one duration on "main"
BlockFailureWitness ==
    /\ last.op = "exit"
    /\ last.body = "BodyError"
    /\ last.exc = "BodyError"
    /\ last.pre = 1
    /\ NTimes(tm.timers, "main") = 2

\* a top-level call has returned control to its caller
Returned == stack = <<>> /\ ret.kind # "none"

\* the Timer of instance o
TimerOf(o) == TimerObj(o).timers

\* C2: when the original body of a wrapped operation raises, the wrapper
\* hands the same failure on to its caller, having stopped the operation's
\* slot: the slot is Idle with exactly one duration more than when the
\* wrapper started it.
WrappedFailurePropagates ==
    [][(/\ stack # <<>>
        /\ stack' # stack
        /\ Top.kind = "wrap"
        /\ Top.pc = 2
        /\ ret.kind = "raise")
         => (/\ ret' = ret
             /\ ~Running(TimerIn(heap', objs', Top.self).timers, Top.op)
             /\ NTimes(TimerIn(heap', objs', Top.self).timers, Top.op) = Top.pre + 1
             /\ objs'[Top.self].recorded = objs[Top.self].recorded + 1)]_vars

\* a top-level o.run(arg) whose body raised DomainError has returned
WrappedFailureWitness ==
    /\ Returned
    /\ call.kind = "call"
    /\ call.op = "run"
    /\ ret = Raise("DomainError")
    /\ call.stops = 1
    /\ ~Running(TimerOf(call.obj), "run")
    /\ NTimes(TimerOf(call.obj), "run") = call.pre + 1

\* C3: an instrumented call returns what the original operation returns, or
\* raises what it raises, also when the operation is re-entered while its own
\* slot is Running (recursion, or an override calling the parent's method).
InstrumentedOutcomeSame ==
    (Returned /\ call.kind = "call") =>
        ret = OrigCall(objs[call.obj].cls, call.op, call.arg)

\* C8: the instance has its Timer whenever a statement of the original
\* initializer runs and whenever a wrapped operation is invoked (also when it
\* is invoked from inside the original initializer).
TimerAttachedBeforeUse ==
    \A i \in 1..Len(stack) :
        (stack[i].kind = "wrap" \/ (stack[i].kind = "body" /\ stack[i].op = "__init__"))
            => /\ objs[stack[i].self].hasTimer
               /\ objs[stack[i].self].nalloc >= 1

\* a wrapped operation being entered from inside the original initializer
TimerAttachedWitness ==
    /\ Len(stack) = 3
    /\ stack[1].kind = "init"
    /\ stack[2].kind = "body"
    /\ stack[2].op = "__init__"
    /\ stack[3].kind = "wrap"
    /\ stack[3].pc = 1

\* the number of durations held by all the slots of a Timer
RECURSIVE TotalTimes(_)
TotalTimes(timers) ==
    IF timers = <<>> THEN 0 ELSE Len(Head(timers).times) + TotalTimes(Tail(timers))

\* C9: an instance holds one Timer for its whole life: one Timer is allocated
\* during construction and it is never replaced, so every duration recorded on
\* the instance is still in its Timer.
OneTimerPerInstance ==
    \A o \in ObjIds :
        /\ objs[o].nalloc <= 1
        /\ objs[o].built = "yes" => objs[o].nalloc = 1
        /\ objs[o].hasTimer => TotalTimes(TimerOf(o)) = objs[o].recorded

\* bodies that do not call their own operation again
NonReentrant(script) == script \in {RetBody, RaiseBody, AuxBody}

SlotsNamed(k) == {i \in 1..Len(tm.timers) : tm.timers[i].name = k}

\* the elapsed value of the slot named k of tm, 0 when tm has no such slot
NamedElapsed(k) ==
    IF SlotsNamed(k) = {} THEN 0
    ELSE SlotElapsed(tm.timers[CHOOSE i \in SlotsNamed(k) : TRUE], perf)

RECURSIVE TotalOver(_)
TotalOver(S) ==
    IF S = {} THEN 0
    ELSE LET k == CHOOSE x \in S : TRUE IN NamedElapsed(k) + TotalOver(S \ {k})

CreatedAt(k) == CHOOSE i \in SlotsNamed(k) : TRUE

\* C12: the report lists every slot exactly once, in descending order of
\* elapsed value, and two slots of equal elapsed value in creation order.
ReportListsSlotsDescending ==
    last.op = "report" =>
        LET L == got.lines
        IN  /\ Len(L) = Len(tm.timers)
            /\ \A i \in 1..Len(tm.timers) :
                  Cardinality({j \in 1..Len(L) : L[j].name = tm.timers[i].name}) = 1
            /\ \A j \in 1..Len(L) : L[j].elapsed = NamedElapsed(L[j].name)
            /\ \A i, j \in 1..Len(L) :
                  i < j => /\ L[i].elapsed >= L[j].elapsed
                           /\ L[i].elapsed = L[j].elapsed
                                 => CreatedAt(L[i].name) < CreatedAt(L[j].name)

\* a report over two slots of the same positive elapsed value
ReportTieWitness ==
    /\ last.op = "report"
    /\ Len(got.lines) = 2
    /\ got.lines[1].elapsed = got.lines[2].elapsed
    /\ got.lines[1].elapsed > 0

\* C14: with a non-decreasing injected clock, no read of a slot's elapsed
\* value or of Timer.elapsed ever returns a negative number.
ElapsedNeverNegative ==
    last.op \in {"elapsed", "slot_elapsed"} => got.total >= 0

\* C18: reading elapsed (of a slot or of the Timer) and producing the report
\* leave the Timer as it was: same slot names, same start markers, same
\* duration lists; no slot is created.
ReadsChangeNothing ==
    [][last'.op \in {"elapsed", "slot_elapsed", "report"} => tm' = tm]_vars

\* Timer.elapsed read while the only slot is running and there is no "main"
ReadWithoutMainWitness ==
    /\ last.op = "elapsed"
    /\ SlotsNamed("main") = {}
    /\ Running(tm.timers, "a")
    /\ got.total > 0

\* C19: a stop(name) that fails with NotStarted leaves what can be observed
\* unchanged: no slot appears, and Timer.elapsed and the report return what
\* they returned before the call.
FailedStopChangesNothing ==
    [][(last'.op = "stop" /\ last'.exc = "NotStarted") =>
          /\ {tm'.timers[i].name : i \in 1..Len(tm'.timers)}
                = {tm.timers[i].name : i \in 1..Len(tm.timers)}
          /\ TimerElapsed(tm', perf) = TimerElapsed(tm, perf)
          /\ Report(tm', perf) = Report(tm, perf)]_vars

\* names a reader takes for private: one leading underscore
Private(n) == n \in {"_helper"}

\* C13: a class body binding a non-dunder name to something that is no
\* function makes the definition of the type fail (InvalidOperationKind), so
\* no defined type carries such an attribute.
DataAttributeRejected ==
    \A c \in ClassNames : \A n \in AttrNames :
        (classes[c].defined /\ ~Dunder(n)) => classes[c].attrs[n].kind # "data"

\* C15: among the operations a class body binds, those wrapped are exactly
\* the exposed ones: every function whose name is neither dunder nor private
\* carries the timing wrapper, and no private or dunder one does.
WrapsExactlyExposed ==
    \A c \in ClassNames : \A n \in AttrNames :
        (classes[c].defined /\ classes[c].attrs[n].kind = "function")
            => (classes[c].attrs[n].layers >= 1 <=> (~Dunder(n) /\ ~Private(n)))

\* C16: constructing an instance runs the type's original initializer with
\* the caller's arguments; when the type has no initializer of its own and
\* inherits one, that inherited initializer runs with the same arguments. So
\* a construction fails exactly when the original one would, and otherwise
\* leaves the instance holding what the original initializer stores.
ConstructionRunsOriginalInit ==
    (Returned /\ call.kind = "new") =>
        LET orig == OrigNew(objs[call.obj].cls, call.arg)
        IN  /\ (ret.kind = "raise") <=> (orig.exc # "none")
            /\ orig.exc = "none" => objs[call.obj].v = orig.v

\* C17: the Timers of distinct instances are isolated: each constructed
\* instance refers to a Timer object of its own, and a start, a stop or a
\* wrapped-operation call on one instance leaves the Timer of every other
\* instance unchanged.
TimersIsolated ==
    [][/\ \A p, q \in Pair :
            (p # q /\ objs'[p].hasTimer /\ objs'[q].hasTimer)
                => objs'[p].ref # objs'[q].ref
       /\ \A q \in Pair :
            q # call'.obj => TimerIn(heap', objs', q) = TimerIn(heap, objs, q)]_vars

\* instance 2 has finished a timed call while instance 1, with one duration
\* on the same slot name, has that slot running
TimersIsolatedWitness ==
    /\ Returned
    /\ call.kind = "call"
    /\ call.obj = 2
    /\ NTimes(TimerOf(2), "run") = 1
    /\ NTimes(TimerOf(1), "run") = 1
    /\ Running(TimerOf(1), "run")
    /\ ~Running(TimerOf(2), "run")

====
